---- MODULE Spec2Model ----
(***************************************************************************)
(* DuckDBDocumentStore (haystack_integrations.document_stores.duckdb):     *)
(* one store object holding one DuckDB connection, and the calls the       *)
(* document-store protocol makes on it.  The engine is modelled by the SQL *)
(* statements the store issues: a table with a primary key on id, one      *)
(* HNSW index, explicit transactions on the single connection.             *)
(*                                                                         *)
(* Python's None is the empty tuple <<>>, a present value x is <<x>>.      *)
(***************************************************************************)
EXTENDS Integers, Sequences, FiniteSets, TLC

VARIABLES store, last

vars == <<store, last>>

\* ------------------------------------------------------------------ bounds
\* Longest list handed to write_documents / delete_documents.
MaxDocs == 2

\* __init__'s default embedding_dim.
embedding_dim == 768

\* ------------------------------------------------------------- input sets
None == <<>>

Ids == {"a", "b"}

DuplicatePolicies == {"NONE", "SKIP", "OVERWRITE", "FAIL"}

\* An embedding is modelled by its length and a tag standing for its values.
Vec(n, v) == <<[dim |-> n, v |-> v]>>

EmptyMeta == {}

\* haystack Document: the fields to_dict(flatten=False) yields.
Doc(i, c, e) ==
    [id |-> i, content |-> c, embedding |-> e, meta |-> EmptyMeta,
     score |-> None, sparse_embedding |-> None, blob |-> None]

\* The documents written: for one id with and without an embedding of the
\* table's dimension, for the other without embedding and with an embedding
\* that has one element too many.
Documents ==
    {Doc("a", "x", None),
     Doc("a", "y", Vec(embedding_dim, 1)),
     Doc("b", "x", None),
     Doc("b", "y", Vec(embedding_dim + 1, 1))}

SeqsUpTo(S, n) == UNION {[1..k -> S] : k \in 0..n}

Batches == SeqsUpTo(Documents, MaxDocs)

IdLists == SeqsUpTo(Ids, MaxDocs)

\* ---------------------------------------------------------------- helpers
NoError == "none"

Range(s) == {s[k] : k \in 1..Len(s)}

RowIds(rows) == {rows[k].id : k \in 1..Len(rows)}

RECURSIVE SelectRows(_, _)
\* The rows of a table, in table order, whose id is in keep.
SelectRows(rows, keep) ==
    IF rows = <<>> THEN <<>>
    ELSE IF Head(rows).id \in keep
         THEN <<Head(rows)>> \o SelectRows(Tail(rows), keep)
         ELSE SelectRows(Tail(rows), keep)

\* ------------------------------------------------------------ conversions
\* The JSON column holds text; json.loads turns the text back into a dict.
ToJson(m) == [json |-> m]

json_loads(t) == t.json

\* to_duckdb_documents, one document: drop score, blob and sparse_embedding,
\* flatten the blob into three columns.
to_duckdb_document(d) ==
    [id |-> d.id,
     embedding |-> d.embedding,
     content |-> d.content,
     meta |-> d.meta,
     blob_data |-> IF d.blob # None THEN <<d.blob[1].data>> ELSE None,
     blob_meta |-> IF d.blob # None /\ d.blob[1].meta # EmptyMeta
                   THEN <<d.blob[1].meta>> ELSE None,
     blob_mime_type |-> IF d.blob # None /\ d.blob[1].mime_type # ""
                        THEN <<d.blob[1].mime_type>> ELSE None]

to_duckdb_documents(documents) ==
    [k \in 1..Len(documents) |-> to_duckdb_document(documents[k])]

\* The row the INSERT stores for a parameter dict: meta is cast to JSON.
RowOf(p) ==
    [id |-> p.id, embedding |-> p.embedding, content |-> p.content,
     blob_data |-> p.blob_data,
     blob_meta |-> IF p.blob_meta = None THEN None ELSE <<ToJson(p.blob_meta[1])>>,
     blob_mime_type |-> p.blob_mime_type,
     meta |-> <<ToJson(p.meta)>>]

\* to_haystack_documents, one row dict.
to_haystack_document(r) ==
    [id |-> r.id,
     content |-> r.content,
     embedding |-> r.embedding,
     meta |-> IF r.meta = None THEN EmptyMeta ELSE json_loads(r.meta[1]),
     score |-> None,
     sparse_embedding |-> None,
     blob |-> IF r.blob_data # None /\ r.blob_data[1] # ""
              THEN <<[data |-> r.blob_data[1],
                      meta |-> r.blob_meta,
                      mime_type |-> r.blob_mime_type]>>
              ELSE None]

to_haystack_documents(documents) ==
    IF documents = <<None>> THEN <<>>
    ELSE [k \in 1..Len(documents) |-> to_haystack_document(documents[k][1])]

\* ------------------------------------------------------------- the engine
\* One connection.  committed: the table's rows; pending: the rows as the
\* open transaction sees them; txn: "none" (autocommit), "open", or
\* "aborted" (an error invalidated the transaction and it awaits ROLLBACK).
FreshDb ==
    [table_exists |-> FALSE, index_exists |-> FALSE,
     committed |-> <<>>, pending |-> <<>>, txn |-> "none"]

\* What a SELECT on the connection reads.
View(db) == IF db.txn = "open" THEN db.pending ELSE db.committed

SetView(db, rows) ==
    IF db.txn = "open" THEN [db EXCEPT !.pending = rows]
    ELSE [db EXCEPT !.committed = rows]

Ok(db) == [db |-> db, err |-> NoError]

Fail(db, e) == [db |-> db, err |-> e]

\* DROP TABLE IF EXISTS: the table goes, and its index with it.
DropTableStmt(db) ==
    IF db.txn = "aborted" THEN Fail(db, "TransactionException")
    ELSE Ok([db EXCEPT !.table_exists = FALSE, !.index_exists = FALSE,
                       !.committed = <<>>, !.pending = <<>>])

\* CREATE TABLE (no IF NOT EXISTS).
CreateTableStmt(db) ==
    IF db.txn = "aborted" THEN Fail(db, "TransactionException")
    ELSE IF db.table_exists THEN Fail(db, "CatalogException")
    ELSE Ok([db EXCEPT !.table_exists = TRUE])

\* DROP INDEX IF EXISTS.
DropIndexStmt(db) ==
    IF db.txn = "aborted" THEN Fail(db, "TransactionException")
    ELSE Ok([db EXCEPT !.index_exists = FALSE])

\* CREATE INDEX (no IF NOT EXISTS).
CreateIndexStmt(db) ==
    IF db.txn = "aborted" THEN Fail(db, "TransactionException")
    ELSE IF ~db.table_exists \/ db.index_exists THEN Fail(db, "CatalogException")
    ELSE Ok([db EXCEPT !.index_exists = TRUE])

\* An INSERT on a table without its primary key: a second row with the id.
ExecInsertNoKey(rows, p, policy_action) ==
    IF p.embedding # None /\ p.embedding[1].dim # embedding_dim
    THEN [rows |-> rows, n |-> 0, err |-> "ConversionException"]
    ELSE [rows |-> Append(rows, RowOf(p)), n |-> 1, err |-> NoError]

\* INSERT INTO table (...) VALUES (...) <policy_action>, one row.  The result
\* is the table, the engine's count of changed rows, and the error raised.
ExecInsert(rows, p, policy_action) ==
    IF p.embedding # None /\ p.embedding[1].dim # embedding_dim
    THEN [rows |-> rows, n |-> 0, err |-> "ConversionException"]
    ELSE IF p.id \in RowIds(rows)
    THEN CASE policy_action = "ON CONFLICT DO NOTHING" ->
                  [rows |-> rows, n |-> 0, err |-> NoError]
           [] policy_action = "_UPDATE_QUERY" ->
                  [rows |-> [k \in 1..Len(rows) |->
                                IF rows[k].id = p.id THEN RowOf(p) ELSE rows[k]],
                   n |-> 1, err |-> NoError]
           [] OTHER ->
                  [rows |-> rows, n |-> 0, err |-> "ConstraintException"]
    ELSE [rows |-> Append(rows, RowOf(p)), n |-> 1, err |-> NoError]

\* DELETE FROM table WHERE id in ?
DeleteStmt(db, document_ids) ==
    IF db.txn = "aborted" THEN Fail(db, "TransactionException")
    ELSE Ok(SetView(db, SelectRows(View(db), Ids \ Range(document_ids))))

\* fetchmany() with its default size of one row.
fetchmany(rows) == SubSeq(rows, 1, IF Len(rows) < 1 THEN Len(rows) ELSE 1)

\* -------------------------------------------------------------- the store
\* The conflict clauses with SKIP given OVERWRITE's.
PolicyActionSkipUpdates(policy) ==
    IF policy \in {"SKIP", "OVERWRITE"} THEN "_UPDATE_QUERY"
    ELSE IF policy = "NONE" THEN "ON CONFLICT DO NOTHING"
    ELSE ""

\* write_documents' choice of conflict clause.
PolicyAction(policy) ==
    IF policy \in {"SKIP", "NONE"} THEN "ON CONFLICT DO NOTHING"
    ELSE IF policy = "OVERWRITE" THEN "_UPDATE_QUERY"
    ELSE ""

\* Every engine error here is a duckdb.DatabaseError: caught and logged.
_create_table(s) ==
    LET d1 == IF s.recreate_table THEN DropTableStmt(s.db) ELSE Ok(s.db)
        d2 == IF d1.err = NoError THEN CreateTableStmt(d1.db) ELSE d1
    IN  IF d2.err = NoError
        THEN [s EXCEPT !.db = d2.db, !.table_initialized = TRUE]
        ELSE [s EXCEPT !.db = d2.db]     \* except duckdb.DatabaseError: logged

\* CREATE INDEX's error is not caught.
_create_index(s) ==
    LET d1 == IF s.recreate_index THEN DropIndexStmt(s.db) ELSE Ok(s.db)
        d2 == IF d1.err = NoError THEN CreateIndexStmt(d1.db) ELSE d1
    IN  [store |-> [s EXCEPT !.db = d2.db], exc |-> d2.err]

\* index_exists is set False on every call, so the index is created again.
_ensure_db_setup(s) ==
    LET s1 == IF ~s.table_initialized THEN _create_table(s) ELSE s
    IN  IF ~s1.create_index_if_missing
        THEN [store |-> s1, exc |-> "RuntimeError"]
        ELSE _create_index(s1)

\* __init__ on a connection to the database prior.
Construct(prior, create_index_if_missing, recreate_table, recreate_index) ==
    _ensure_db_setup([db |-> prior,
                      recreate_table |-> recreate_table,
                      recreate_index |-> recreate_index,
                      create_index_if_missing |-> create_index_if_missing,
                      table_initialized |-> FALSE])

\* The databases a store is opened on: a new one (":memory:", a new file) or
\* a file an earlier store left, holding the table and perhaps the index.
PriorDbs ==
    {FreshDb}
    \cup {[FreshDb EXCEPT !.table_exists = TRUE, !.index_exists = ix] :
            ix \in BOOLEAN}

RECURSIVE RunInserts(_, _, _, _)
\* The loop of write_documents: stops at the first statement that raises.
RunInserts(rows, params, policy_action, num_written) ==
    IF params = <<>>
    THEN [rows |-> rows, num |-> num_written, err |-> NoError]
    ELSE LET r == ExecInsert(rows, Head(params), policy_action)
         IN  IF r.err # NoError
             THEN [rows |-> r.rows, num |-> num_written, err |-> r.err]
             ELSE RunInserts(r.rows, Tail(params), policy_action,
                             num_written + r.n)

NoReturn == -1

\* write_documents(documents, policy), documents a list of Documents (the
\* isinstance checks pass).  begin() raises when the connection already has a
\* transaction.  Only ConstraintException is caught and rolled back; fate is
\* what the engine has made of the transaction when a statement raised any
\* other error: still "open", or "aborted".  The method does not call
\* _ensure_db_setup.
write_documents(s, documents, policy, fate) ==
    IF s.db.txn # "none"
    THEN [store |-> s, exc |-> "TransactionException", ret |-> NoReturn]
    ELSE LET r == RunInserts(s.db.committed, to_duckdb_documents(documents),
                             PolicyAction(policy), 0)
         IN  IF r.err = NoError
             THEN [store |-> [s EXCEPT !.db.committed = r.rows],
                   exc |-> NoError, ret |-> r.num]
             ELSE IF r.err = "ConstraintException"
             THEN [store |-> s, exc |-> "DuplicateDocumentError",
                   ret |-> NoReturn]
             ELSE [store |-> [s EXCEPT !.db.txn = fate,
                                       !.db.pending = IF fate = "open"
                                                      THEN r.rows ELSE <<>>],
                   exc |-> r.err, ret |-> NoReturn]

\* The fates to consider for a call: both when the call leaves its
\* transaction behind, one otherwise.
Fates(s, documents, policy) ==
    IF write_documents(s, documents, policy, "open").store.db.txn = "open"
    THEN {"open", "aborted"} ELSE {"open"}

\* delete_documents(document_ids).  Existence is not looked up (FIXME in the
\* source); self._db.fetchone() reads the result of the setup's last
\* statement and changes nothing.
delete_documents(s, document_ids) ==
    LET e == _ensure_db_setup(s)
    IN  IF e.exc # NoError THEN [store |-> e.store, exc |-> e.exc]
        ELSE LET d == DeleteStmt(e.store.db, document_ids)
             IN  [store |-> [e.store EXCEPT !.db = d.db], exc |-> d.err]

\* count_documents(): SELECT count(*) after the setup.
count_documents(s) ==
    LET e == _ensure_db_setup(s)
    IN  IF e.exc # NoError
        THEN [store |-> e.store, exc |-> e.exc, ret |-> NoReturn]
        ELSE [store |-> e.store, exc |-> NoError, ret |-> Len(View(e.store.db))]

\* filter_documents(filters): filters is not applied (TODO in the source).
filter_documents(s) ==
    LET e == _ensure_db_setup(s)
    IN  IF e.exc # NoError
        THEN [store |-> e.store, exc |-> e.exc, ret |-> <<>>]
        ELSE LET records == fetchmany(View(e.store.db))
                 \* one dict, filled from every record fetched
                 docs == IF records = <<>> THEN <<None>>
                         ELSE <<<<records[Len(records)]>>>>
             IN  [store |-> e.store, exc |-> NoError,
                  ret |-> to_haystack_documents(docs)]

\* --------------------------------------------------------- state machine
\* last: the most recent call, what it was given, the rows a read saw before
\* it, and how it ended.
Call(op, documents, policy, ids, pre, exc, ret, out) ==
    [op |-> op, documents |-> documents, policy |-> policy, ids |-> ids,
     pre |-> pre, exc |-> exc, ret |-> ret, out |-> out]

Init ==
    /\ \E prior \in PriorDbs, cim \in BOOLEAN, rt \in BOOLEAN, ri \in BOOLEAN :
          /\ Construct(prior, cim, rt, ri).exc = NoError
          /\ store = Construct(prior, cim, rt, ri).store
    /\ last = Call("init", <<>>, "NONE", <<>>, <<>>, NoError, NoReturn, <<>>)

WriteDocuments ==
    \E documents \in Batches, policy \in DuplicatePolicies :
      \E fate \in Fates(store, documents, policy) :
        LET r == write_documents(store, documents, policy, fate)
        IN  /\ store' = r.store
            /\ last' = Call("write", documents, policy, <<>>, View(store.db),
                            r.exc, r.ret, <<>>)

DeleteDocuments ==
    \E document_ids \in IdLists :
        LET r == delete_documents(store, document_ids)
        IN  /\ store' = r.store
            /\ last' = Call("delete", <<>>, "NONE", document_ids,
                            View(store.db), r.exc, NoReturn, <<>>)

CountDocuments ==
    LET r == count_documents(store)
    IN  /\ store' = r.store
        /\ last' = Call("count", <<>>, "NONE", <<>>, View(store.db),
                        r.exc, r.ret, <<>>)

FilterDocuments ==
    LET r == filter_documents(store)
    IN  /\ store' = r.store
        /\ last' = Call("filter", <<>>, "NONE", <<>>, View(store.db),
                        r.exc, NoReturn, r.ret)

Next ==
    \/ WriteDocuments
    \/ DeleteDocuments
    \/ CountDocuments
    \/ FilterDocuments

Spec == Init /\ [][Next]_vars

\* ------------------------------------------------------ claims: vocabulary
\* The stored documents: the rows a read on the store's connection sees.
Stored == View(store.db)

WrittenRow(d) == RowOf(to_duckdb_document(d))

BatchIds(documents) == {documents[k].id : k \in 1..Len(documents)}

DistinctIds(documents) == Cardinality(BatchIds(documents)) = Len(documents)

\* Every embedding of the batch has the table's dimension (or is absent).
WellFormed(documents) ==
    \A k \in 1..Len(documents) :
        \/ documents[k].embedding = None
        \/ documents[k].embedding[1].dim = embedding_dim

\* The last document of the batch with the given id.
LastWithId(documents, i) ==
    documents[CHOOSE k \in 1..Len(documents) :
                /\ documents[k].id = i
                /\ \A j \in (k + 1)..Len(documents) : documents[j].id # i]

Wrote(policy) == last.op = "write" /\ last.policy = policy

\* No earlier call has left its transaction on the connection.
NoTransactionLeft == store.db.txn = "none"

\* ----------------------------------------------------------------- claims
\* C1: write_documents(documents, policy=FAIL) on a store holding none of the
\* batch's ids, the ids pairwise distinct, returns len(documents) and stores
\* every document of the batch.  (Stated for batches the table accepts.)
C1_FailWritesWholeBatch ==
    (/\ Wrote("FAIL")
     /\ WellFormed(last.documents)
     /\ DistinctIds(last.documents)
     /\ BatchIds(last.documents) \cap RowIds(last.pre) = {})
    => /\ last.exc = NoError
       /\ last.ret = Len(last.documents)
       /\ Len(Stored) = Len(last.pre) + Len(last.documents)
       /\ \A k \in 1..Len(last.documents) :
              WrittenRow(last.documents[k]) \in Range(Stored)

\* C1 where no earlier call has left a transaction open: the statement holds.
C1_WithoutLeftTransaction ==
    (Wrote("FAIL") /\ last.exc # "TransactionException")
    => C1_FailWritesWholeBatch

\* C2: write_documents(documents, policy=FAIL) raises DuplicateDocumentError
\* whenever an id of the batch is stored already or occurs twice in it, and
\* then the stored documents are those stored before the call.
C2_FailRaisesOnDuplicate ==
    (/\ Wrote("FAIL")
     /\ WellFormed(last.documents)
     /\ \/ ~DistinctIds(last.documents)
        \/ BatchIds(last.documents) \cap RowIds(last.pre) # {})
    => /\ last.exc = "DuplicateDocumentError"
       /\ Stored = last.pre

\* C2 where no earlier call has left a transaction open: the statement holds.
C2_WithoutLeftTransaction ==
    (Wrote("FAIL") /\ last.exc # "TransactionException")
    => C2_FailRaisesOnDuplicate

\* C3: write_documents(documents, policy=OVERWRITE) never raises
\* DuplicateDocumentError; afterwards each id of the batch is stored exactly
\* once, with the fields of the last document of the batch that has the id,
\* and every stored document with another id is unchanged.
C3_OverwriteStoresLast ==
    (Wrote("OVERWRITE") /\ WellFormed(last.documents))
    => /\ last.exc # "DuplicateDocumentError"
       /\ \A i \in BatchIds(last.documents) :
              SelectRows(Stored, {i}) =
                  <<WrittenRow(LastWithId(last.documents, i))>>
       /\ SelectRows(Stored, Ids \ BatchIds(last.documents)) =
              SelectRows(last.pre, Ids \ BatchIds(last.documents))

\* C3 where no earlier call has left a transaction open: the statement holds.
C3_WithoutLeftTransaction ==
    (Wrote("OVERWRITE") /\ last.exc # "TransactionException")
    => C3_OverwriteStoresLast

\* C4: write_documents(documents, policy=SKIP) never raises
\* DuplicateDocumentError; every document stored before the call is kept as
\* it was, only documents of the batch with an id not stored before are
\* added, and the number returned is the number of documents added.
C4_SkipKeepsStored ==
    Wrote("SKIP")
    => /\ last.exc # "DuplicateDocumentError"
       /\ SelectRows(Stored, RowIds(last.pre)) = last.pre
       /\ \A k \in 1..Len(Stored) :
              Stored[k].id \notin RowIds(last.pre)
              => \E j \in 1..Len(last.documents) :
                     Stored[k] = WrittenRow(last.documents[j])
       /\ last.exc = NoError => last.ret = Len(Stored) - Len(last.pre)

\* A SKIP write that returned, having added one document and skipped another
\* whose id was stored with other content.
C4_SkipSkippedOne ==
    /\ Wrote("SKIP")
    /\ last.exc = NoError
    /\ last.ret = 1
    /\ \E k \in 1..Len(last.documents) :
          /\ last.documents[k].id \in RowIds(last.pre)
          /\ WrittenRow(last.documents[k]) \notin Range(Stored)

\* C5: in every state reached by write_documents and delete_documents calls,
\* returning or raising, the table holds at most one document per id.
C5_OneRowPerId ==
    /\ Cardinality(RowIds(store.db.committed)) = Len(store.db.committed)
    /\ Cardinality(RowIds(store.db.pending)) = Len(store.db.pending)

\* A write that met a stored id under FAIL and raised, the table holding two
\* documents.
C5_AfterDuplicateRaised ==
    /\ Wrote("FAIL")
    /\ last.exc = "DuplicateDocumentError"
    /\ BatchIds(last.documents) \cap RowIds(last.pre) # {}
    /\ Len(Stored) = 2

\* C6: delete_documents(document_ids), every id of the list stored, removes
\* the stored documents with these ids and leaves the others unchanged.
C6_DeleteRemovesListed ==
    (/\ last.op = "delete"
     /\ Range(last.ids) \subseteq RowIds(last.pre))
    => Stored = SelectRows(last.pre, Ids \ Range(last.ids))

\* C6 for the calls that get past _ensure_db_setup: the statement holds.
C6_WhenSetupSucceeds ==
    (last.op = "delete" /\ last.exc = NoError) => C6_DeleteRemovesListed

\* C7: delete_documents(document_ids) fails with MissingDocumentError if the
\* list holds an id no stored document has.  (Stated for the calls that get
\* past _ensure_db_setup.)
C7_DeleteMissingRaises ==
    (/\ last.op = "delete"
     /\ last.exc \notin {"CatalogException", "TransactionException"}
     /\ ~(Range(last.ids) \subseteq RowIds(last.pre)))
    => last.exc = "MissingDocumentError"

\* C8: filter_documents(filters=None) on a store of n documents returns n
\* Documents, one per stored row, with the id, content, embedding and meta
\* of the document written under the id.  (Stated for calls that return.)
C8_FilterReturnsAll ==
    (last.op = "filter" /\ last.exc = NoError)
    => /\ Len(last.out) = Len(last.pre)
       /\ \A k \in 1..Len(last.pre) :
              \E j \in 1..Len(last.out), d \in Documents :
                  /\ WrittenRow(d) = last.pre[k]
                  /\ last.out[j].id = d.id
                  /\ last.out[j].content = d.content
                  /\ last.out[j].embedding = d.embedding
                  /\ last.out[j].meta = d.meta

\* C9: on a store constructed with any recreate_table and recreate_index,
\* count_documents returns, whenever called, the number of stored documents
\* and leaves them unchanged.
C9_CountReturns ==
    last.op = "count"
    => /\ last.exc = NoError
       /\ last.ret = Len(last.pre)
       /\ Stored = last.pre

\* C10: when a write_documents call has ended, by returning or by raising,
\* the connection has no open transaction.
C10_NoTransactionAfterWrite ==
    last.op = "write" => NoTransactionLeft

====
